---- MODULE Spec2Model ----
(***************************************************************************)
(* Model of src/bot.js: the per-chat confirmation dialogue                 *)
(* (userConfirmationState, lastAddedExpenseData) and the gastos.txt        *)
(* ledger it appends to, rewrites and deletes.                             *)
(*                                                                         *)
(* The 'messages.upsert' handler is an async function: the code between    *)
(* two awaits runs atomically, and every await is a sock.sendMessage call  *)
(* that either resolves or rejects.  A handler is therefore a small        *)
(* process whose position (pc) names the sendMessage it is suspended at.   *)
(*                                                                         *)
(* Text is modelled as a sequence of tokens (indivisible chunks of text);  *)
(* the field delimiter ";" is a token of its own, so that writing a        *)
(* record and splitting the line again is computed, not assumed.           *)
(* Amounts are kept in cents; Dates in clock ticks (milliseconds).         *)
(***************************************************************************)
EXTENDS Integers, Sequences, FiniteSets, TLC

\* ---------------------------------------------------------------- bounds
\* Largest clock reading (new Date()) the model explores.
MaxTime == 1
\* Largest number of lines the ledger file may hold before appends stop.
MaxLines == 2
\* Largest number of handlers of one chat suspended at the same time.
MaxHandlers == 2
\* Largest number of lines of a ledger file found at start-up.
MaxStored == 2

\* ---------------------------------------------------------------- inputs
Chats == {"c1", "c2"}

Msg(head, amount, conn, desc) ==
    [head |-> head, amount |-> amount, conn |-> conn, desc |-> desc]
\* An amount as typed: integer digits, separator ("" when absent), fraction digits.
Amt(whole, sep, frac) == [whole |-> whole, sep |-> sep, frac |-> frac]
NoAmt == Amt(0, "-", <<>>)
Word(w) == Msg(w, NoAmt, "", <<>>)

\* Expense statements: 'gastei 1,5 no Uber', 'gastei 1.5 no Uber',
\* 'gastei 0 com pao', 'GASTEI 2 na loja;x'.
Statements ==
    { Msg("gastei", Amt(1, ",", <<5>>), "no", <<"Uber">>),
      Msg("gastei", Amt(1, ".", <<5>>), "no", <<"Uber">>),
      Msg("gastei", Amt(0, "", <<>>), "com", <<"pao">>),
      Msg("GASTEI", Amt(2, "", <<>>), "na", <<"loja", ";", "x">>) }
Replies == { Word("sim"), Word("S"), Word("nao"), Word("talvez") }
Commands == { Word("/ajuda"), Word("/total"), Word("/hoje"), Word("/semana"),
              Word("/relatorio"), Word("/LIMPAR"), Word("oi") }
Messages == Statements \cup Replies \cup Commands
\* What each chat sends when two chats run side by side: c1 every message but
\* the second statement; c2 the answers, the clear command and the first statement.
Sends ==
    [c \in Chats |->
        IF c = "c1"
        THEN Messages \ { Msg("gastei", Amt(0, "", <<>>), "com", <<"pao">>) }
        ELSE { Word("sim"), Word("nao"), Word("talvez"), Word("/LIMPAR"),
               Msg("gastei", Amt(1, ",", <<5>>), "no", <<"Uber">>) }]
\* What each chat sends when c1 runs alone: every message.
SoloSends == [c \in Chats |-> IF c = "c1" THEN Messages ELSE {}]

\* ------------------------------------------------------------ text helpers
\* String.prototype.toLowerCase on one token.
LowerTok(w) ==
    CASE w = "S" -> "s"
      [] w = "GASTEI" -> "gastei"
      [] w = "Uber" -> "uber"
      [] w = "/LIMPAR" -> "/limpar"
      [] OTHER -> w
toLowerCase(text) == [i \in 1..Len(text) |-> LowerTok(text[i])]

\* ---------------------------------------------------------- categoryMap
categoryMap ==
    << <<"mercado", "Supermercado">>, <<"compra", "Supermercado">>,
       <<"padaria", "Alimentação">>, <<"restaurante", "Alimentação">>,
       <<"almoco", "Alimentação">>, <<"jantar", "Alimentação">>,
       <<"pizza", "Alimentação">>, <<"lanche", "Alimentação">>,
       <<"transporte", "Transporte">>, <<"uber", "Transporte">>,
       <<"taxi", "Transporte">>, <<"gasolina", "Automóvel">>,
       <<"combustivel", "Automóvel">>, <<"cinema", "Entretenimento">>,
       <<"filme", "Entretenimento">>, <<"role", "Entretenimento">>,
       <<"roupa", "Compras">>, <<"sapato", "Compras">>,
       <<"eletronico", "Compras">>, <<"conta", "Contas Fixas">>,
       <<"aluguel", "Moradia">>, <<"internet", "Serviços">> >>

Outros == <<"Outros">>
SemDescricao == <<"Sem descrição">>

\* lowerDescription.includes(keyword), a keyword being one token.
Includes(text, keyword) == \E i \in 1..Len(text) : text[i] = keyword

\* The first keyword of categoryMap, in table order, found in the description.
suggestCategory(description) ==
    LET lowerDescription == toLowerCase(description)
        hits == { k \in 1..Len(categoryMap) : Includes(lowerDescription, categoryMap[k][1]) }
    IN  IF hits = {} THEN Outros
        ELSE <<categoryMap[CHOOSE k \in hits : \A j \in hits : k <= j][2]>>

\* ------------------------------------------------------ number and date text
Digits2(n) == IF n < 10 THEN "0" \o ToString(n) ELSE ToString(n)
\* Number.prototype.toFixed(2) of an amount held in cents.
toFixed2(value) == ToString(value \div 100) \o "." \o Digits2(value % 100)
\* Date.prototype.toISOString of a clock reading.
toISOString(t) == "T" \o ToString(t)

NaN == -1
InvalidDate == -1

\* The amount of a statement in cents: parseFloat(match[1].replace(',', '.')).
AmountValue(a) ==
    a.whole * 100 +
      (IF Len(a.frac) = 0 THEN 0
       ELSE IF Len(a.frac) = 1 THEN a.frac[1] * 10
       ELSE a.frac[1] * 10 + a.frac[2])

Values == { AmountValue(m.amount) : m \in Statements }
Times == 0..MaxTime

\* parseFloat of a stored field: the amount whose text it is, else NaN.
parseFloat(field) ==
    IF Len(field) = 1 /\ \E v \in Values : toFixed2(v) = field[1]
    THEN CHOOSE v \in Values : toFixed2(v) = field[1]
    ELSE NaN
\* new Date(text) of a stored field.
newDate(field) ==
    IF Len(field) = 1 /\ \E t \in Times : toISOString(t) = field[1]
    THEN CHOOSE t \in Times : toISOString(t) = field[1]
    ELSE InvalidDate

\* --------------------------------------------------------- ledger records
Expense(timestamp, value, description, category) ==
    [timestamp |-> timestamp, value |-> value,
     description |-> description, category |-> category]

\* `${timestamp.toISOString()};${value.toFixed(2)};${description};${category}`
FormatLine(timestamp, value, description, category) ==
    <<toISOString(timestamp), ";", toFixed2(value), ";">> \o description
        \o <<";">> \o category

\* line.split(';')
RECURSIVE SplitFrom(_, _, _)
SplitFrom(line, i, cur) ==
    IF i > Len(line) THEN <<cur>>
    ELSE IF line[i] = ";" THEN <<cur>> \o SplitFrom(line, i + 1, <<>>)
    ELSE SplitFrom(line, i + 1, Append(cur, line[i]))
Split(line) == SplitFrom(line, 1, <<>>)

\* The callback of fileContent.trim().split('\n').map(...): <<>> stands for null.
ParseLine(line) ==
    LET parts == Split(line) IN
    IF Len(parts) < 3 THEN <<>>
    ELSE <<Expense(newDate(parts[1]), parseFloat(parts[2]),
                   IF parts[3] = <<>> THEN SemDescricao ELSE parts[3],
                   IF Len(parts) < 4 \/ parts[4] = <<>> THEN Outros ELSE parts[4])>>

\* ParseLines giving up at the first line that does not parse.
RECURSIVE ParseLines_StopsAtBadLine(_)
ParseLines_StopsAtBadLine(lines) ==
    IF lines = <<>> THEN <<>>
    ELSE LET item == ParseLine(Head(lines)) IN
         IF item # <<>> /\ item[1].value # NaN
         THEN item \o ParseLines_StopsAtBadLine(Tail(lines))
         ELSE <<>>

RECURSIVE ParseLines(_)
ParseLines(lines) ==
    IF lines = <<>> THEN <<>>
    ELSE LET item == ParseLine(Head(lines)) IN
         (IF item # <<>> /\ item[1].value # NaN THEN item ELSE <<>>)
            \o ParseLines(Tail(lines))

\* The file gastos.txt: absent, or a sequence of newline-terminated lines.
File(exists, lines) == [exists |-> exists, lines |-> lines]
Absent == File(FALSE, <<>>)

readExpensesFromFile(file) ==
    IF ~file.exists THEN <<>>
    ELSE IF file.lines = <<>> THEN <<>>
    ELSE ParseLines(file.lines)

writeExpensesToFile(expenses) ==
    File(TRUE, [i \in 1..Len(expenses) |->
                  FormatLine(expenses[i].timestamp, expenses[i].value,
                             expenses[i].description, expenses[i].category)])

\* appendFileSync replaced by writeFileSync: the new line replaces the file.
appendFileSync_Overwrites(file, line) == File(TRUE, <<line>>)
\* appendFileSync putting the new line first.
appendFileSync_Prepends(file, line) == File(TRUE, <<line>> \o file.lines)
\* fs.appendFileSync(GASTOS_FILE_PATH, record): creates the file when absent.
appendFileSync(file, line) == File(TRUE, Append(file.lines, line))

\* unlinkSync leaving the file in place.
unlinkSync_KeepsFile(file) == file
\* fs.unlinkSync(GASTOS_FILE_PATH): the file is gone.
unlinkSync(file) == Absent

\* The writer of a line no chat of this run appended.
NoChat == "-"
\* The history after a step that makes `by` the writers of the lines.
Recorded(history, by) == IF history.recorded THEN [history EXCEPT !.by = by] ELSE history
\* The writers of the lines that readExpensesFromFile keeps, which are the
\* lines of the file after writeExpensesToFile has rewritten it.
RECURSIVE KeptWriters(_, _)
KeptWriters(lines, writers) ==
    IF lines = <<>> THEN <<>>
    ELSE LET item == ParseLine(Head(lines))
             w == IF writers = <<>> THEN NoChat ELSE Head(writers)
         IN  (IF item # <<>> /\ item[1].value # NaN THEN <<w>> ELSE <<>>)
                \o KeptWriters(Tail(lines), IF writers = <<>> THEN <<>> ELSE Tail(writers))

\* ------------------------------------------------------------------ state
VARIABLES
    userConfirmationState,  \* chat -> pending confirmation (type "none": no entry)
    lastAddedExpenseData,   \* chat -> data of the expense just appended (present or not)
    gastos,                 \* the file gastos.txt
    now,                    \* the clock read by new Date()
    handlers,               \* chat -> the sends its 'messages.upsert' invocations await, oldest first
    lastStep,               \* what the last step was: "close" (the connection closed), "uncaught"
                            \* (a handler ended with an error no catch took), else "ok"
    appendedBy              \* history, kept where .recorded: .by is, for every line of
                            \* gastos.txt, the chat whose 'sim' appended it (the file
                            \* itself does not record it)

vars == <<userConfirmationState, lastAddedExpenseData, gastos, now, handlers, lastStep,
         appendedBy>>

Pending(type, value, description, suggestedCategory) ==
    [type |-> type, value |-> value, description |-> description,
     suggestedCategory |-> suggestedCategory]
NoPending == Pending("none", 0, <<>>, <<>>)
CategoryPending == Pending("category_confirm", 0, <<>>, <<>>)
ClearPending == Pending("clear_confirm", 0, <<>>, <<>>)

Added(present, timestamp, value, description, suggestedCategory) ==
    [present |-> present, timestamp |-> timestamp, value |-> value,
     description |-> description, suggestedCategory |-> suggestedCategory]
NoAdded == Added(FALSE, 0, 0, <<>>, <<>>)

Init ==
    /\ userConfirmationState = [c \in Chats |-> NoPending]
    /\ lastAddedExpenseData = [c \in Chats |-> NoAdded]
    /\ gastos = Absent
    /\ now = 0
    /\ handlers = [c \in Chats |-> <<>>]
    /\ lastStep = "ok"
    /\ appendedBy = [recorded |-> FALSE, by |-> <<>>]

\* ------------------------------------------------------ the inbound text
\* messageText.toLowerCase(); a statement is no single word, so it equals no command.
IsWord(m) == m.amount = NoAmt /\ m.desc = <<>>
LowerCaseText(m) == IF IsWord(m) THEN LowerTok(m.head) ELSE LowerTok(m.head) \o " ..."

\* expenseRegex = /^gastei\s+(\d+(?:,\d{1,2})?)\s+(?:na|no|com)\s+(.+)$/i
expenseRegex(m) ==
    /\ LowerTok(m.head) = "gastei"
    /\ \/ m.amount.sep = "" /\ m.amount.frac = <<>>
       \/ m.amount.sep = "," /\ Len(m.amount.frac) \in 1..2
    /\ LowerTok(m.conn) \in {"na", "no", "com"}
    /\ m.desc # <<>>

\* --------------------------------------------------- reply classification
IsYes(lowerCaseText) == lowerCaseText \in {"sim", "s"}
\* IsNo with every answer other than yes taken for a no.
IsNo_AnythingElse(lowerCaseText) == lowerCaseText \notin {"sim", "s"}
IsNo(lowerCaseText) == lowerCaseText \in {"não", "nao", "n"}

\* ------------------------------------------------------------ await points
\* The handler suspends at `await sock.sendMessage(...)`; pc names the message.
Suspend(c, pc) == handlers' = [handlers EXCEPT ![c] = Append(@, pc)]

\* delete userConfirmationState[chatId]; delete lastAddedExpenseData[chatId];
DeleteBoth(c) ==
    /\ userConfirmationState' = [userConfirmationState EXCEPT ![c] = NoPending]
    /\ lastAddedExpenseData' = [lastAddedExpenseData EXCEPT ![c] = NoAdded]
\* delete userConfirmationState[chatId];
DeleteState(c) ==
    /\ userConfirmationState' = [userConfirmationState EXCEPT ![c] = NoPending]
    /\ UNCHANGED lastAddedExpenseData

\* ------------------------------------------- pending: expense_confirm
\* Lines 186-252.  appendOk: whether fs.appendFileSync succeeds.
ExpenseConfirm(c, lowerCaseText) ==
    LET pending == userConfirmationState[c] IN
    /\ pending.type = "expense_confirm"
    /\ IF IsYes(lowerCaseText) THEN
         \E appendOk \in BOOLEAN :
         IF appendOk THEN
           LET timestamp == now
               record == FormatLine(timestamp, pending.value, pending.description, Outros)
           IN  /\ Len(gastos.lines) < MaxLines
               /\ gastos' = appendFileSync(gastos, record)
               /\ appendedBy' = Recorded(appendedBy, Append(appendedBy.by, c))
               /\ lastAddedExpenseData' =
                    [lastAddedExpenseData EXCEPT ![c] =
                       Added(TRUE, timestamp, pending.value, pending.description,
                             pending.suggestedCategory)]
               /\ userConfirmationState' =
                    [userConfirmationState EXCEPT ![c] = CategoryPending]
               /\ Suspend(c, "ec_category_prompt")
         ELSE
           /\ Suspend(c, "ec_save_error")
           /\ UNCHANGED <<gastos, appendedBy, userConfirmationState, lastAddedExpenseData>>
       ELSE
         /\ Suspend(c, IF IsNo(lowerCaseText) THEN "ec_cancelled" ELSE "ec_invalid")
         /\ UNCHANGED <<gastos, appendedBy, userConfirmationState, lastAddedExpenseData>>
    /\ lastStep' = "ok"
    /\ UNCHANGED now

\* ------------------------------------------ pending: category_confirm
\* FindLastAdded scanning from the oldest record: the first match is the oldest.
FindLastAdded_Oldest(expenses, expenseData) ==
    LET matches == { i \in 1..Len(expenses) :
                       /\ toISOString(expenses[i].timestamp) = toISOString(expenseData.timestamp)
                       /\ expenses[i].value = expenseData.value
                       /\ expenses[i].description = expenseData.description
                       /\ expenses[i].category = Outros }
    IN  IF matches = {} THEN 0 ELSE CHOOSE i \in matches : \A j \in matches : i <= j

\* The scan of lines 268-280: the index of the newest matching record, 0 if none.
FindLastAdded(expenses, expenseData) ==
    LET matches == { i \in 1..Len(expenses) :
                       /\ toISOString(expenses[i].timestamp) = toISOString(expenseData.timestamp)
                       /\ expenses[i].value = expenseData.value
                       /\ expenses[i].description = expenseData.description
                       /\ expenses[i].category = Outros }
    IN  IF matches = {} THEN 0 ELSE CHOOSE i \in matches : \A j \in matches : j <= i

\* CategoryConfirm rewriting from the snapshot taken when the record was
\* appended: the file up to the record found, without the lines appended since.
CategoryConfirm_StaleSnapshot(c, lowerCaseText) ==
    LET expenseData == lastAddedExpenseData[c] IN
    /\ userConfirmationState[c].type = "category_confirm"
    /\ IF ~expenseData.present THEN
         /\ Suspend(c, "cc_missing")
         /\ UNCHANGED <<gastos, appendedBy>>
       ELSE IF IsYes(lowerCaseText) THEN
         \E readOk \in BOOLEAN, writeOk \in BOOLEAN :
         IF ~readOk /\ gastos.exists THEN
           /\ Suspend(c, "cc_error")
           /\ UNCHANGED <<gastos, appendedBy>>
         ELSE
           LET expenses == readExpensesFromFile(gastos)
               i == FindLastAdded(expenses, expenseData)
           IN  IF i = 0 THEN
                 /\ Suspend(c, "cc_not_found")
                 /\ UNCHANGED <<gastos, appendedBy>>
               ELSE IF writeOk THEN
                 /\ gastos' = writeExpensesToFile(
                       SubSeq([expenses EXCEPT ![i].category = expenseData.suggestedCategory],
                              1, i))
                 /\ appendedBy' = Recorded(appendedBy,
                                           SubSeq(KeptWriters(gastos.lines, appendedBy.by), 1, i))
                 /\ Suspend(c, "cc_classified")
               ELSE
                 /\ Suspend(c, "cc_error")
                 /\ UNCHANGED <<gastos, appendedBy>>
       ELSE
         /\ Suspend(c, IF IsNo(lowerCaseText) THEN "cc_kept" ELSE "cc_invalid")
         /\ UNCHANGED <<gastos, appendedBy>>
    /\ lastStep' = "ok"
    /\ UNCHANGED <<userConfirmationState, lastAddedExpenseData, now>>

\* Lines 253-307.  readOk, writeOk: whether readFileSync / writeFileSync succeed.
CategoryConfirm(c, lowerCaseText) ==
    LET expenseData == lastAddedExpenseData[c] IN
    /\ userConfirmationState[c].type = "category_confirm"
    /\ IF ~expenseData.present THEN
         /\ Suspend(c, "cc_missing")
         /\ UNCHANGED <<gastos, appendedBy>>
       ELSE IF IsYes(lowerCaseText) THEN
         \E readOk \in BOOLEAN, writeOk \in BOOLEAN :
         IF ~readOk /\ gastos.exists THEN
           /\ Suspend(c, "cc_error")
           /\ UNCHANGED <<gastos, appendedBy>>
         ELSE
           LET expenses == readExpensesFromFile(gastos)
               i == FindLastAdded(expenses, expenseData)
           IN  IF i = 0 THEN
                 /\ Suspend(c, "cc_not_found")
                 /\ UNCHANGED <<gastos, appendedBy>>
               ELSE IF writeOk THEN
                 /\ gastos' = writeExpensesToFile(
                       [expenses EXCEPT ![i].category = expenseData.suggestedCategory])
                 /\ appendedBy' = Recorded(appendedBy, KeptWriters(gastos.lines, appendedBy.by))
                 /\ Suspend(c, "cc_classified")
               ELSE
                 /\ Suspend(c, "cc_error")
                 /\ UNCHANGED <<gastos, appendedBy>>
       ELSE
         /\ Suspend(c, IF IsNo(lowerCaseText) THEN "cc_kept" ELSE "cc_invalid")
         /\ UNCHANGED <<gastos, appendedBy>>
    /\ lastStep' = "ok"
    /\ UNCHANGED <<userConfirmationState, lastAddedExpenseData, now>>

\* --------------------------------------------- pending: clear_confirm
\* ClearConfirm without the fs.existsSync test: reading a file that is not
\* there throws.
ClearConfirm_NoExistsCheck(c, lowerCaseText) ==
    /\ userConfirmationState[c].type = "clear_confirm"
    /\ IF IsYes(lowerCaseText) THEN
         IF ~gastos.exists THEN
           /\ Suspend(c, "cl_error")
           /\ UNCHANGED <<gastos, appendedBy>>
         ELSE
           /\ gastos' = unlinkSync(gastos)
           /\ appendedBy' = Recorded(appendedBy, <<>>)
           /\ Suspend(c, "cl_cleared")
       ELSE
         /\ Suspend(c, IF IsNo(lowerCaseText) THEN "cl_cancelled" ELSE "cl_invalid")
         /\ UNCHANGED <<gastos, appendedBy>>
    /\ lastStep' = "ok"
    /\ UNCHANGED <<userConfirmationState, lastAddedExpenseData, now>>

\* Lines 308-335.  readOk, unlinkOk: whether readFileSync / unlinkSync succeed.
ClearConfirm(c, lowerCaseText) ==
    /\ userConfirmationState[c].type = "clear_confirm"
    /\ IF IsYes(lowerCaseText) THEN
         \E readOk \in BOOLEAN, unlinkOk \in BOOLEAN :
         IF ~gastos.exists THEN
           /\ Suspend(c, "cl_none")
           /\ UNCHANGED <<gastos, appendedBy>>
         ELSE IF ~readOk THEN
           /\ Suspend(c, "cl_error")
           /\ UNCHANGED <<gastos, appendedBy>>
         ELSE IF gastos.lines = <<>> THEN
           /\ Suspend(c, "cl_empty")
           /\ UNCHANGED <<gastos, appendedBy>>
         ELSE IF unlinkOk THEN
           /\ gastos' = unlinkSync(gastos)
           /\ appendedBy' = Recorded(appendedBy, <<>>)
           /\ Suspend(c, "cl_cleared")
         ELSE
           /\ Suspend(c, "cl_error")
           /\ UNCHANGED <<gastos, appendedBy>>
       ELSE
         /\ Suspend(c, IF IsNo(lowerCaseText) THEN "cl_cancelled" ELSE "cl_invalid")
         /\ UNCHANGED <<gastos, appendedBy>>
    /\ lastStep' = "ok"
    /\ UNCHANGED <<userConfirmationState, lastAddedExpenseData, now>>

\* ----------------------------------------------------- no pending state
\* Calendar day of a clock reading (setHours(0, 0, 0, 0)).
TicksPerDay == 1
DayOf(t) == t \div TicksPerDay

TodayExpenses(expenses, today) ==
    SelectSeq(expenses, LAMBDA e : DayOf(e.timestamp) = DayOf(today))
WeekExpenses(expenses, today) ==
    SelectSeq(expenses, LAMBDA e : /\ DayOf(e.timestamp) >= DayOf(today) - 6
                                   /\ DayOf(e.timestamp) <= DayOf(today))

\* Days in a month of the calendar: the clock starts in janeiro de 2024.
DaysPerMonth == 1
MonthOf(t) == DayOf(t) \div DaysPerMonth

monthOrder ==
    <<"janeiro", "fevereiro", "março", "abril", "maio", "junho", "julho",
      "agosto", "setembro", "outubro", "novembro", "dezembro">>

\* date.toLocaleDateString('pt-BR', { month: 'long', year: 'numeric' }), word by
\* word: 'janeiro de 2024'.
monthYear(t) ==
    <<monthOrder[(MonthOf(t) % 12) + 1], "de", ToString(2024 + MonthOf(t) \div 12)>>

\* Object.keys(reportData): the month labels in the order the loop of lines
\* 531-549 first meets them.
RECURSIVE reportMonths(_)
reportMonths(expenses) ==
    IF expenses = <<>> THEN <<>>
    ELSE LET rest == reportMonths(SubSeq(expenses, 1, Len(expenses) - 1))
             key == monthYear(expenses[Len(expenses)].timestamp)
         IN  IF \E i \in 1..Len(rest) : rest[i] = key THEN rest ELSE Append(rest, key)

\* Array.prototype.indexOf, counted from 0; -1 when absent.
indexOf(array, x) ==
    IF \E i \in 1..Len(array) : array[i] = x
    THEN (CHOOSE i \in 1..Len(array) : array[i] = x /\ \A j \in 1..(i - 1) : array[j] # x) - 1
    ELSE -1

\* parseInt of one word: the year it spells, else NaN.
Years == 2024..(2024 + MonthOf(MaxTime) \div 12)
parseInt(word) ==
    IF \E y \in Years : ToString(y) = word
    THEN CHOOSE y \in Years : ToString(y) = word
    ELSE NaN

\* The comparator of lines 556-566, as Array.prototype.sort takes its result:
\* `const [ma, ya] = a.split(' ')` names the first two words; a NaN year makes
\* `yearA !== yearB` true and the result NaN, which sort reads as 0.
compareMonths(a, b) ==
    LET ma == a[1]
        ya == a[2]
        mb == b[1]
        yb == b[2]
        monthAIndex == indexOf(monthOrder, LowerTok(ma))
        monthBIndex == indexOf(monthOrder, LowerTok(mb))
        yearA == parseInt(ya)
        yearB == parseInt(yb)
    IN  IF yearA = NaN \/ yearB = NaN THEN 0
        ELSE IF yearA # yearB THEN yearA - yearB
        ELSE monthAIndex - monthBIndex

\* Array.prototype.sort with that comparator (a stable sort).
RECURSIVE InsertSorted(_, _)
InsertSorted(sorted, x) ==
    IF sorted = <<>> THEN <<x>>
    ELSE IF compareMonths(sorted[Len(sorted)], x) > 0
         THEN Append(InsertSorted(SubSeq(sorted, 1, Len(sorted) - 1), x),
                     sorted[Len(sorted)])
         ELSE Append(sorted, x)
RECURSIVE sortMonths(_)
sortMonths(keys) ==
    IF keys = <<>> THEN <<>>
    ELSE InsertSorted(sortMonths(SubSeq(keys, 1, Len(keys) - 1)), keys[Len(keys)])

\* The month groups of /relatorio in the order the report lists them.
sortedMonths(expenses) == sortMonths(reportMonths(expenses))

\* ReportCommand with the full report removing the file it has reported.
ReportCommand_Consumes(c, lowerCaseText) ==
    /\ userConfirmationState[c].type = "none"
    /\ lowerCaseText \in {"/ajuda", "/total", "/hoje", "/semana", "/relatorio"}
    /\ Suspend(c, IF lowerCaseText = "/relatorio" THEN "relatorio" ELSE "help")
    /\ gastos' = (IF lowerCaseText = "/relatorio" THEN Absent ELSE gastos)
    /\ appendedBy' = (IF lowerCaseText = "/relatorio" THEN Recorded(appendedBy, <<>>)
                      ELSE appendedBy)
    /\ lastStep' = "ok"
    /\ UNCHANGED <<userConfirmationState, lastAddedExpenseData, now>>

\* Lines 357-617: /ajuda and the four reports; each reads the ledger inside a try.
ReportCommand(c, lowerCaseText) ==
    /\ userConfirmationState[c].type = "none"
    /\ lowerCaseText \in {"/ajuda", "/total", "/hoje", "/semana", "/relatorio"}
    /\ \E readOk \in BOOLEAN :
       LET expenses == readExpensesFromFile(gastos)
           failed == ~readOk /\ gastos.exists
       IN
       Suspend(c,
         CASE lowerCaseText = "/ajuda" -> "help"
           [] lowerCaseText = "/total" ->
                IF failed THEN "total_error"
                ELSE IF Len(expenses) = 0 THEN "total_none" ELSE "total"
           [] lowerCaseText = "/hoje" ->
                IF failed THEN "hoje_error"
                ELSE IF Len(expenses) = 0 THEN "hoje_none"
                ELSE IF Len(TodayExpenses(expenses, now)) = 0 THEN "hoje_empty" ELSE "hoje"
           [] lowerCaseText = "/semana" ->
                IF failed THEN "semana_error"
                ELSE IF Len(expenses) = 0 THEN "semana_none"
                ELSE IF Len(WeekExpenses(expenses, now)) = 0 THEN "semana_empty" ELSE "semana"
           [] OTHER ->
                IF failed THEN "relatorio_error"
                ELSE IF Len(expenses) = 0 THEN "relatorio_none" ELSE "relatorio")
    /\ lastStep' = "ok"
    /\ UNCHANGED <<userConfirmationState, lastAddedExpenseData, gastos, appendedBy, now>>

\* ClearCommand asking for the confirmation without looking at the ledger.
ClearCommand_AlwaysPrompts(c, lowerCaseText) ==
    /\ userConfirmationState[c].type = "none"
    /\ lowerCaseText = "/limpar"
    /\ userConfirmationState' = [userConfirmationState EXCEPT ![c] = ClearPending]
    /\ Suspend(c, "limpar_prompt")
    /\ lastStep' = "ok"
    /\ UNCHANGED <<lastAddedExpenseData, gastos, appendedBy, now>>

\* Lines 620-635: /limpar.  The ledger is read outside any try; a failed read
\* leaves the handler uncaught before it sends anything.
ClearCommand(c, lowerCaseText) ==
    /\ userConfirmationState[c].type = "none"
    /\ lowerCaseText = "/limpar"
    /\ \E readOk \in BOOLEAN :
       IF ~readOk /\ gastos.exists THEN
         /\ lastStep' = "uncaught"
         /\ UNCHANGED <<userConfirmationState, handlers>>
       ELSE IF Len(readExpensesFromFile(gastos)) = 0 THEN
         /\ Suspend(c, "limpar_none")
         /\ lastStep' = "ok"
         /\ UNCHANGED userConfirmationState
       ELSE
         /\ userConfirmationState' = [userConfirmationState EXCEPT ![c] = ClearPending]
         /\ Suspend(c, "limpar_prompt")
         /\ lastStep' = "ok"
    /\ UNCHANGED <<lastAddedExpenseData, gastos, appendedBy, now>>

\* ExpenseStatement taken up without the check for a pending confirmation.
ExpenseStatement_WhilePending(c, m) ==
    /\ expenseRegex(m)
    /\ userConfirmationState' =
         [userConfirmationState EXCEPT ![c] =
            Pending("expense_confirm", AmountValue(m.amount), m.desc,
                    suggestCategory(m.desc))]
    /\ Suspend(c, "expense_prompt")
    /\ lastStep' = "ok"
    /\ UNCHANGED <<lastAddedExpenseData, gastos, appendedBy, now>>

\* Lines 640-665: a new expense statement.
ExpenseStatement(c, m) ==
    /\ userConfirmationState[c].type = "none"
    /\ LowerCaseText(m) \notin {"/ajuda", "/total", "/hoje", "/semana", "/relatorio", "/limpar"}
    /\ expenseRegex(m)
    /\ LET value == AmountValue(m.amount)
           description == m.desc
           suggestedCategory == suggestCategory(description)
       IN  /\ userConfirmationState' =
                [userConfirmationState EXCEPT ![c] =
                   Pending("expense_confirm", value, description, suggestedCategory)]
           /\ Suspend(c, "expense_prompt")
           /\ lastStep' = "ok"
    /\ UNCHANGED <<lastAddedExpenseData, gastos, appendedBy, now>>

\* Lines 173-176 and 666: an echo of the bot's own message, or a text that is
\* neither a command nor a statement while nothing is pending: no effect, no reply.
Ignored(c, m, fromMe) ==
    /\ \/ fromMe
       \/ /\ ~fromMe
          /\ userConfirmationState[c].type = "none"
          /\ LowerCaseText(m) \notin {"/ajuda", "/total", "/hoje", "/semana", "/relatorio", "/limpar"}
          /\ ~expenseRegex(m)
    /\ UNCHANGED vars

\* ------------------------------------------------- resuming after a send
\* DeletesOnSent with the "no" answer to the category question forgetting
\* `delete lastAddedExpenseData[chatId]`.
DeletesOnSent_KeepsData(pc) ==
    IF pc \in {"ec_save_error", "ec_prompt_error", "ec_cancelled",
               "cc_classified", "cc_not_found", "cc_error"} THEN "both"
    ELSE IF pc \in {"cc_missing", "cl_cleared", "cl_empty", "cl_none", "cl_error",
                    "cl_cancelled", "cc_kept"} THEN "state"
    ELSE "nothing"

\* What the code after a resolved `await sock.sendMessage` deletes.
DeletesOnSent(pc) ==
    IF pc \in {"ec_save_error", "ec_prompt_error", "ec_cancelled",
               "cc_classified", "cc_not_found", "cc_error", "cc_kept"} THEN "both"
    ELSE IF pc \in {"cc_missing", "cl_cleared", "cl_empty", "cl_none", "cl_error",
                    "cl_cancelled"} THEN "state"
    ELSE "nothing"

\* The catch block a rejected send lands in: the message that block sends, "" if
\* the send is inside no try.
CatchOnReject(pc) ==
    CASE pc = "ec_category_prompt" -> "ec_prompt_error"
      [] pc \in {"cc_classified", "cc_not_found"} -> "cc_error"
      [] pc \in {"cl_cleared", "cl_empty", "cl_none"} -> "cl_error"
      [] pc \in {"total", "total_none"} -> "total_error"
      [] pc \in {"hoje", "hoje_none", "hoje_empty"} -> "hoje_error"
      [] pc \in {"semana", "semana_none", "semana_empty"} -> "semana_error"
      [] pc \in {"relatorio", "relatorio_none"} -> "relatorio_error"
      [] OTHER -> ""

\* DeletesOnReject with the category update's deletes at the end of the catch
\* block instead of in a finally block.
DeletesOnReject_NoFinally(pc) == IF pc = "cl_error" THEN "state" ELSE "nothing"

\* What a finally block deletes when the send inside its catch block rejects.
DeletesOnReject(pc) ==
    IF pc = "cc_error" THEN "both"
    ELSE IF pc = "cl_error" THEN "state"
    ELSE "nothing"

Delete(c, what) ==
    IF what = "both" THEN DeleteBoth(c)
    ELSE IF what = "state" THEN DeleteState(c)
    ELSE UNCHANGED <<userConfirmationState, lastAddedExpenseData>>

RemoveAt(seq, k) == SubSeq(seq, 1, k - 1) \o SubSeq(seq, k + 1, Len(seq))

\* sock.sendMessage resolves for the k-th suspended handler of chat c, which
\* runs to its end.
SendResolves(c, k) ==
    /\ k \in 1..Len(handlers[c])
    /\ Delete(c, DeletesOnSent(handlers[c][k]))
    /\ handlers' = [handlers EXCEPT ![c] = RemoveAt(@, k)]
    /\ lastStep' = "ok"
    /\ UNCHANGED <<gastos, appendedBy, now>>

\* sock.sendMessage rejects: the enclosing catch sends its own message, or the
\* error leaves the handler (after any finally block) and nothing catches it.
SendRejects(c, k) ==
    /\ k \in 1..Len(handlers[c])
    /\ IF CatchOnReject(handlers[c][k]) # "" THEN
         /\ handlers' = [handlers EXCEPT ![c][k] = CatchOnReject(@)]
         /\ lastStep' = "ok"
         /\ UNCHANGED <<userConfirmationState, lastAddedExpenseData>>
       ELSE
         /\ Delete(c, DeletesOnReject(handlers[c][k]))
         /\ handlers' = [handlers EXCEPT ![c] = RemoveAt(@, k)]
         /\ lastStep' = "uncaught"
    /\ UNCHANGED <<gastos, appendedBy, now>>

\* ------------------------------------------------------ connection.update
\* ConnectionClose doing what the comment of line 148 says: the tables are
\* emptied only on a disconnect that is no logout.
ConnectionClose_KeepsOnLogout ==
    \E shouldReconnect \in BOOLEAN :
        /\ IF shouldReconnect
           THEN /\ userConfirmationState' = [c \in Chats |-> NoPending]
                /\ lastAddedExpenseData' = [c \in Chats |-> NoAdded]
           ELSE UNCHANGED <<userConfirmationState, lastAddedExpenseData>>
        /\ lastStep' = "close"
        /\ UNCHANGED <<gastos, appendedBy, now, handlers>>

\* Lines 143-159: connection === 'close' empties both tables, whether the bot
\* reconnects (lines 149-152) or was logged out (lines 157-158).
ConnectionClose ==
    \E shouldReconnect \in BOOLEAN :
        /\ IF shouldReconnect
           THEN /\ userConfirmationState' = [c \in Chats |-> NoPending]
                /\ lastAddedExpenseData' = [c \in Chats |-> NoAdded]
           ELSE /\ userConfirmationState' = [c \in Chats |-> NoPending]
                /\ lastAddedExpenseData' = [c \in Chats |-> NoAdded]
        /\ lastStep' = "close"
        /\ UNCHANGED <<gastos, appendedBy, now, handlers>>

\* Tick with pending confirmations expiring as time passes.
Tick_Expires ==
    /\ now < MaxTime
    /\ now' = now + 1
    /\ userConfirmationState' = [c \in Chats |-> NoPending]
    /\ lastStep' = "ok"
    /\ UNCHANGED <<lastAddedExpenseData, gastos, appendedBy, handlers>>

\* The clock advances.
Tick ==
    /\ now < MaxTime
    /\ now' = now + 1
    /\ lastStep' = "ok"
    /\ UNCHANGED <<userConfirmationState, lastAddedExpenseData, gastos, appendedBy, handlers>>

\* ----------------------------------------------------------- scheduling
\* Events of one chat are handled one at a time (spec section 5): a message of
\* chat c is taken up only when no handler of c is suspended.
Serialized(c) == handlers[c] = <<>>

ExpenseConfirmStep(sends) ==
    \E c \in Chats : \E m \in sends[c] :
        Serialized(c) /\ ExpenseConfirm(c, LowerCaseText(m))
CategoryConfirmStep(sends) ==
    \E c \in Chats : \E m \in sends[c] :
        Serialized(c) /\ CategoryConfirm(c, LowerCaseText(m))
ClearConfirmStep(sends) ==
    \E c \in Chats : \E m \in sends[c] :
        Serialized(c) /\ ClearConfirm(c, LowerCaseText(m))
ReportCommandStep(sends) ==
    \E c \in Chats : \E m \in sends[c] :
        Serialized(c) /\ ReportCommand(c, LowerCaseText(m))
ClearCommandStep(sends) ==
    \E c \in Chats : \E m \in sends[c] :
        Serialized(c) /\ ClearCommand(c, LowerCaseText(m))
ExpenseStatementStep(sends) ==
    \E c \in Chats : \E m \in sends[c] :
        Serialized(c) /\ ExpenseStatement(c, m)
IgnoredStep(sends) ==
    \E c \in Chats :
        /\ Serialized(c)
        /\ \E m \in sends[c] : Ignored(c, m, m = Word("sim")) \/ Ignored(c, m, FALSE)
SendResolvesStep == \E c \in Chats : \E k \in 1..Len(handlers[c]) : SendResolves(c, k)
SendRejectsStep == \E c \in Chats : \E k \in 1..Len(handlers[c]) : SendRejects(c, k)

NextOf(sends) ==
    \/ ExpenseConfirmStep(sends)
    \/ CategoryConfirmStep(sends)
    \/ ClearConfirmStep(sends)
    \/ ReportCommandStep(sends)
    \/ ClearCommandStep(sends)
    \/ ExpenseStatementStep(sends)
    \/ IgnoredStep(sends)
    \/ SendResolvesStep
    \/ SendRejectsStep
    \/ ConnectionClose
    \/ Tick

\* Two chats side by side.
Next == NextOf(Sends)
Spec == Init /\ [][Next]_vars

\* One chat alone, sending every message.
NextSolo == NextOf(SoloSends)
SpecSolo == Init /\ [][NextSolo]_vars

\* Two chats as in Spec, with the writer of every line kept as history.
InitWriters ==
    /\ userConfirmationState = [c \in Chats |-> NoPending]
    /\ lastAddedExpenseData = [c \in Chats |-> NoAdded]
    /\ gastos = Absent
    /\ now = 0
    /\ handlers = [c \in Chats |-> <<>>]
    /\ lastStep = "ok"
    /\ appendedBy = [recorded |-> TRUE, by |-> <<>>]
SpecWriters == InitWriters /\ [][Next]_vars

\* Lines a gastos.txt found at start-up may hold: a record as the bot writes
\* it, a record of three fields, a record of five fields (a description with
\* ';'), a line of one field, a record whose value is no number, and a record
\* of the latest time of the clock.
StoredLines ==
    { FormatLine(0, 150, <<"Uber">>, Outros),
      FormatLine(MaxTime, 150, <<"Uber">>, <<"Transporte">>),
      <<"T0", ";", "1.50", ";", "uber">>,
      <<"T0", ";", "2.00", ";", "loja", ";", "x", ";", "Outros">>,
      <<"lixo">>,
      <<"T0", ";", "abc", ";", "uber", ";", "Outros">> }
RECURSIVE SeqsOf(_, _)
SeqsOf(S, n) ==
    IF n = 0 THEN {<<>>}
    ELSE SeqsOf(S, n - 1) \cup { Append(q, x) : q \in SeqsOf(S, n - 1), x \in S }
StoredFiles == { File(TRUE, lines) : lines \in SeqsOf(StoredLines, MaxStored) \ {<<>>} }

\* One chat alone, the bot started on a gastos.txt left by an earlier run or
\* edited by hand.
InitStored ==
    /\ userConfirmationState = [c \in Chats |-> NoPending]
    /\ lastAddedExpenseData = [c \in Chats |-> NoAdded]
    /\ gastos \in StoredFiles
    /\ now = 0
    /\ handlers = [c \in Chats |-> <<>>]
    /\ lastStep = "ok"
    /\ appendedBy = [recorded |-> FALSE, by |-> <<>>]
SpecStored == InitStored /\ [][NextSolo]_vars

\* sock.ev.on('messages.upsert', async ...): the emitter does not wait for the
\* promise of the listener, so a message of chat c is taken up while earlier
\* handlers of c are still suspended at their sends.
Overlapping(c) == handlers[c] # <<>> /\ Len(handlers[c]) < MaxHandlers

OverlapStep(sends) ==
    \E c \in Chats : \E m \in sends[c] :
        /\ Overlapping(c)
        /\ \/ ExpenseConfirm(c, LowerCaseText(m))
           \/ CategoryConfirm(c, LowerCaseText(m))
           \/ ClearConfirm(c, LowerCaseText(m))
           \/ ReportCommand(c, LowerCaseText(m))
           \/ ClearCommand(c, LowerCaseText(m))
           \/ ExpenseStatement(c, m)

\* One chat alone, its messages handled as the emitter delivers them.
NextAsync == NextOf(SoloSends) \/ OverlapStep(SoloSends)
SpecAsync == Init /\ [][NextAsync]_vars

\* ============================================================ properties
\* The ledger as readExpensesFromFile sees it, and the steps of one handler.
Ledger == readExpensesFromFile(gastos)
Begins(c, pc) == handlers[c] = <<>> /\ handlers'[c] = <<pc>>
Ends(c, pc) == handlers[c] = <<pc>> /\ handlers'[c] = <<>>
TypeOf(c) == userConfirmationState[c].type

\* C1: between handler steps, with the events of one chat handled one at a
\* time, lastAddedExpenseData[c] exists exactly when userConfirmationState[c]
\* has type 'category_confirm'.
C1_PendingCommitIffCategoryConfirm ==
    \A c \in Chats :
        lastAddedExpenseData[c].present <=> TypeOf(c) = "category_confirm"

\* A chat waits for the category answer, its appended expense on record.
C1_Witness ==
    \E c \in Chats :
        /\ TypeOf(c) = "category_confirm"
        /\ lastAddedExpenseData[c].present
        /\ handlers[c] = <<>>
        /\ \E d \in Chats : d # c /\ TypeOf(d) = "clear_confirm"

\* C2: a yes in expense_confirm whose append succeeds adds exactly one record
\* at the end of the ledger, with the pending value and description and
\* category 'Outros', leaves the earlier records as they were, and moves the
\* chat to category_confirm with lastAddedExpenseData holding that record's
\* timestamp, value, description and the suggested category.
C2_YesAppendsPendingExpense ==
    [][\A c \in Chats :
         (TypeOf(c) = "expense_confirm" /\ Begins(c, "ec_category_prompt")) =>
            LET pending == userConfirmationState[c]
                old == readExpensesFromFile(gastos)
                new == readExpensesFromFile(gastos')
            IN  /\ Len(new) = Len(old) + 1
                /\ SubSeq(new, 1, Len(old)) = old
                /\ new[Len(new)].value = pending.value
                /\ new[Len(new)].description = pending.description
                /\ new[Len(new)].category = Outros
                /\ userConfirmationState'[c].type = "category_confirm"
                /\ lastAddedExpenseData'[c] =
                     Added(TRUE, new[Len(new)].timestamp, pending.value,
                           pending.description, pending.suggestedCategory)
      ]_vars

\* The line the expense yes of chat c appended is in the file as written.
AppendedLineKept(c) ==
    \E i \in 1..Len(gastos.lines) :
        gastos.lines[i] = FormatLine(lastAddedExpenseData[c].timestamp,
                                     lastAddedExpenseData[c].value,
                                     lastAddedExpenseData[c].description, Outros)

\* C3: statement, yes, yes with no failure, reset or clear in between leaves
\* the ledger holding the appended record with the suggested category, and
\* the chat with no pending state.
C3_HappyPathClassifies ==
    [][\A c \in Chats :
         /\ ( /\ TypeOf(c) = "category_confirm"
              /\ lastAddedExpenseData[c].present
              /\ AppendedLineKept(c)
              /\ Begins(c, "cc_classified") \/ Begins(c, "cc_not_found") )
            => \E i \in 1..Len(readExpensesFromFile(gastos')) :
                  readExpensesFromFile(gastos')[i] =
                     Expense(lastAddedExpenseData[c].timestamp,
                             lastAddedExpenseData[c].value,
                             lastAddedExpenseData[c].description,
                             lastAddedExpenseData[c].suggestedCategory)
         /\ Ends(c, "cc_classified") => userConfirmationState'[c].type = "none"
      ]_vars

\* Some record present before and after the step has another category after it.
CategoryChanged ==
    LET old == readExpensesFromFile(gastos)
        new == readExpensesFromFile(gastos')
    IN  /\ gastos' # gastos
        /\ \E i \in 1..Len(old) : i <= Len(new) /\ new[i].category # old[i].category

\* C4: the category of a record in the ledger changes only in the step that
\* handles a yes in category_confirm; every other step leaves the category of
\* every record it keeps as it was.
C4_CategoryChangesOnlyOnConfirmation ==
    [][CategoryChanged =>
         \E c \in Chats : /\ TypeOf(c) = "category_confirm"
                          /\ lastAddedExpenseData[c].present
                          /\ Begins(c, "cc_classified")
      ]_vars

\* A confirmed category is in the ledger while its handler still awaits the send.
C4_Witness ==
    \E c \in Chats :
        /\ handlers[c] = <<"cc_classified">>
        /\ \E i \in 1..Len(Ledger) : Ledger[i].category = <<"Transporte">>
        /\ \E d \in Chats : d # c /\ TypeOf(d) = "expense_confirm"

\* The ledger after the yes-path of category_confirm ran for expenseData.
AfterCategoryYes(file, expenseData) ==
    LET expenses == readExpensesFromFile(file)
        i == FindLastAdded(expenses, expenseData)
    IN  IF i = 0 THEN file
        ELSE writeExpensesToFile(
                [expenses EXCEPT ![i].category = expenseData.suggestedCategory])

\* C5: the category update rewrites only a record whose category is still
\* 'Outros', and the yes-path run twice for the same lastAddedExpenseData
\* changes a record at most once: the second run finds no match.
C5_SecondYesFindsNoMatch ==
    \A c \in Chats :
        (lastAddedExpenseData[c].present
            /\ FindLastAdded(Ledger, lastAddedExpenseData[c]) # 0) =>
          /\ Ledger[FindLastAdded(Ledger, lastAddedExpenseData[c])].category = Outros
          /\ FindLastAdded(
                readExpensesFromFile(AfterCategoryYes(gastos, lastAddedExpenseData[c])),
                lastAddedExpenseData[c]) = 0

\* C6: when the append fails on a yes in expense_confirm the ledger is
\* unchanged, nothing is stored in lastAddedExpenseData, and when the handler
\* ends the chat has no pending state, whether or not the error reply is sent.
C6_AppendFailureEndsIdle ==
    [][\A c \in Chats :
         /\ Begins(c, "ec_save_error") =>
               gastos' = gastos /\ ~lastAddedExpenseData'[c].present
         /\ Ends(c, "ec_save_error") =>
               /\ gastos' = gastos
               /\ userConfirmationState'[c].type = "none"
               /\ ~lastAddedExpenseData'[c].present
      ]_vars

\* C7: when the send of the category question fails after the append, the
\* appended record stays in the ledger with category 'Outros', and when the
\* handler ends the chat has no pending state and no lastAddedExpenseData,
\* whether or not the follow-up notice is sent.
C7_PromptFailureEndsIdle ==
    [][\A c \in Chats :
         /\ (handlers[c] = <<"ec_category_prompt">> /\ handlers'[c] = <<"ec_prompt_error">>)
               => gastos' = gastos
         /\ Ends(c, "ec_prompt_error") =>
               /\ gastos' = gastos
               /\ userConfirmationState'[c].type = "none"
               /\ ~lastAddedExpenseData'[c].present
      ]_vars

\* C8: when readFileSync or writeFileSync fails on a yes in category_confirm
\* the ledger stays as it was, and when the handler ends the chat has no
\* pending state and no lastAddedExpenseData, whether or not the error reply
\* is sent.
C8_CategoryIOFailureEndsIdle ==
    [][\A c \in Chats :
         /\ Begins(c, "cc_error") => gastos' = gastos
         /\ Ends(c, "cc_error") =>
               /\ gastos' = gastos
               /\ userConfirmationState'[c].type = "none"
               /\ ~lastAddedExpenseData'[c].present
      ]_vars

\* The category update failed and its record is still waiting to be classified.
C8_Witness ==
    \E c \in Chats :
        /\ handlers[c] = <<"cc_error">>
        /\ lastAddedExpenseData[c].present
        /\ lastAddedExpenseData[c].suggestedCategory # Outros
        /\ FindLastAdded(Ledger, lastAddedExpenseData[c]) # 0

\* A handler of chat c starts on a text that is neither a yes nor a no while a
\* confirmation is pending.
InvalidReplyStep(c) ==
    /\ handlers[c] = <<>>
    /\ Len(handlers'[c]) = 1
    /\ TypeOf(c) # "none"
    /\ \E m \in Sends[c] :
          /\ LowerCaseText(m) \notin {"sim", "s", "não", "nao", "n"}
          /\ \/ ExpenseConfirm(c, LowerCaseText(m))
             \/ CategoryConfirm(c, LowerCaseText(m))
             \/ ClearConfirm(c, LowerCaseText(m))

\* C9: in each of the three pending states a text that is neither yes nor no
\* leaves userConfirmationState, lastAddedExpenseData and the ledger as they
\* were; the handler only sends the 'invalid' reply.
C9_InvalidReplyChangesNothing ==
    [][\A c \in Chats :
         /\ InvalidReplyStep(c) =>
               /\ handlers'[c] = <<CASE TypeOf(c) = "expense_confirm" -> "ec_invalid"
                                     [] TypeOf(c) = "category_confirm" -> "cc_invalid"
                                     [] OTHER -> "cl_invalid">>
               /\ UNCHANGED <<userConfirmationState, lastAddedExpenseData, gastos>>
         /\ (Ends(c, "ec_invalid") \/ Ends(c, "cc_invalid") \/ Ends(c, "cl_invalid")) =>
               UNCHANGED <<userConfirmationState, lastAddedExpenseData, gastos>>
      ]_vars

\* An 'invalid' reply is on its way while the category question is still open.
C9_Witness ==
    \E c \in Chats :
        /\ handlers[c] = <<"cc_invalid">>
        /\ TypeOf(c) = "category_confirm"
        /\ lastAddedExpenseData[c].present
        /\ Len(Ledger) > 0

\* C10: a no in any pending state leaves the chat with no pending state and
\* no lastAddedExpenseData, and the ledger exactly as it was.
C10_NoReturnsToIdle ==
    [][\A c \in Chats :
         \A pc \in {"ec_cancelled", "cc_kept", "cl_cancelled"} :
            /\ Begins(c, pc) => gastos' = gastos
            /\ Ends(c, pc) =>
                  /\ gastos' = gastos
                  /\ userConfirmationState'[c].type = "none"
                  /\ ~lastAddedExpenseData'[c].present
      ]_vars

\* C11: a yes in clear_confirm whose unlink succeeds leaves the ledger with no
\* records (readExpensesFromFile returns the empty list), and when the handler
\* ends, its reply sent or not, the chat has no pending state.
C11_ClearYesEmptiesLedger ==
    [][\A c \in Chats :
         /\ (TypeOf(c) = "clear_confirm" /\ Begins(c, "cl_cleared")) =>
               readExpensesFromFile(gastos') = <<>>
         /\ (handlers[c] = <<"cl_cleared">> /\ handlers'[c] # handlers[c]) =>
               \/ handlers'[c] = <<"cl_error">> /\ gastos' = gastos
               \/ handlers'[c] = <<>> /\ userConfirmationState'[c].type = "none"
         /\ Ends(c, "cl_error") => userConfirmationState'[c].type = "none"
      ]_vars

\* The file was removed and the 'apagados' reply is on its way.
C11_Witness ==
    \E c \in Chats :
        /\ handlers[c] = <<"cl_cleared">>
        /\ TypeOf(c) = "clear_confirm"
        /\ Ledger = <<>>

\* C12: '/limpar' with nothing pending, once the ledger is read, sets
\* clear_confirm exactly when the ledger has a record; with an empty or absent
\* ledger the chat stays without pending state; the command never changes
\* the file.
C12_ClearCommandPromptsIffNonEmpty ==
    [][\A c \in Chats :
         /\ (Begins(c, "limpar_prompt") \/ Begins(c, "limpar_none")) =>
               /\ TypeOf(c) = "none"
               /\ userConfirmationState'[c].type =
                     (IF Len(readExpensesFromFile(gastos)) > 0
                      THEN "clear_confirm" ELSE "none")
               /\ handlers'[c] =
                     (IF Len(readExpensesFromFile(gastos)) > 0
                      THEN <<"limpar_prompt">> ELSE <<"limpar_none">>)
               /\ UNCHANGED <<gastos, lastAddedExpenseData>>
         /\ (Ends(c, "limpar_prompt") \/ Ends(c, "limpar_none")) =>
               UNCHANGED <<userConfirmationState, lastAddedExpenseData, gastos>>
      ]_vars

\* One chat was asked to confirm the clearing of a ledger that has a record,
\* another was told, while the ledger was still empty, that nothing is there.
C12_Witness ==
    \E c \in Chats, d \in Chats :
        /\ handlers[c] = <<"limpar_prompt">>
        /\ TypeOf(c) = "clear_confirm"
        /\ Len(Ledger) > 0
        /\ handlers[d] = <<"limpar_none">>
        /\ TypeOf(d) = "none"

\* The replies of /ajuda, /total, /hoje, /semana and /relatorio.
ReportReplies ==
    {"help", "total", "total_none", "total_error", "hoje", "hoje_none", "hoje_empty",
     "hoje_error", "semana", "semana_none", "semana_empty", "semana_error",
     "relatorio", "relatorio_none", "relatorio_error"}

\* C13: /ajuda, /total, /hoje, /semana and /relatorio, handled with nothing
\* pending, change no chat's userConfirmationState, no lastAddedExpenseData
\* and not the file, in any step of their handler; they only send a reply.
C13_ReportsChangeNothing ==
    [][\A c \in Chats :
         /\ (handlers[c] = <<>> /\ Len(handlers'[c]) = 1 /\ handlers'[c][1] \in ReportReplies) =>
               /\ TypeOf(c) = "none"
               /\ UNCHANGED <<userConfirmationState, lastAddedExpenseData, gastos>>
         /\ (Len(handlers[c]) = 1 /\ handlers[c][1] \in ReportReplies
                /\ handlers'[c] # handlers[c]) =>
               /\ handlers'[c] = <<>> \/ handlers'[c][1] \in ReportReplies
               /\ UNCHANGED <<userConfirmationState, lastAddedExpenseData, gastos>>
      ]_vars

\* A report of a ledger with a record is on its way while another chat has a
\* confirmation pending.
C13_Witness ==
    \E c \in Chats, d \in Chats :
        /\ handlers[c] = <<"relatorio">>
        /\ Len(Ledger) > 0
        /\ TypeOf(d) = "category_confirm"
        /\ lastAddedExpenseData[d].present

\* The replies of the three pending states.
PendingReplies ==
    {"ec_category_prompt", "ec_save_error", "ec_cancelled", "ec_invalid",
     "cc_missing", "cc_error", "cc_not_found", "cc_classified", "cc_kept", "cc_invalid",
     "cl_none", "cl_error", "cl_empty", "cl_cleared", "cl_cancelled", "cl_invalid"}

\* C14: while a chat has a pending state every text of that chat, a command
\* or a new statement included, is answered as a yes, a no or an invalid
\* reply; no step replaces the value, description or suggested category of a
\* pending expense_confirm, which are those of the statement that set it, and
\* the line a later yes appends is written from them.
C14_PendingTakesEveryText ==
    [][\A c \in Chats :
         /\ (TypeOf(c) # "none" /\ handlers[c] = <<>> /\ Len(handlers'[c]) = 1) =>
               handlers'[c][1] \in PendingReplies
         /\ (TypeOf(c) = "expense_confirm"
                /\ userConfirmationState'[c].type = "expense_confirm") =>
               userConfirmationState'[c] = userConfirmationState[c]
         /\ Begins(c, "expense_prompt") =>
               /\ TypeOf(c) = "none"
               /\ \E m \in Sends[c] :
                     /\ expenseRegex(m)
                     /\ userConfirmationState'[c] =
                          Pending("expense_confirm", AmountValue(m.amount), m.desc,
                                  suggestCategory(m.desc))
         /\ (TypeOf(c) = "expense_confirm" /\ Begins(c, "ec_category_prompt")) =>
               gastos'.lines =
                  Append(gastos.lines,
                         FormatLine(now, userConfirmationState[c].value,
                                    userConfirmationState[c].description, Outros))
      ]_vars

\* The expense of 'gastei 1,5 no Uber' was appended on a yes; the other chat
\* has just been told that its text is no valid answer.
C14_Witness ==
    \E c \in Chats, d \in Chats :
        /\ handlers[c] = <<"ec_category_prompt">>
        /\ lastAddedExpenseData[c].value = 150
        /\ lastAddedExpenseData[c].description = <<"Uber">>
        /\ gastos.lines[Len(gastos.lines)] =
              FormatLine(lastAddedExpenseData[c].timestamp, 150, <<"Uber">>, Outros)
        /\ handlers[d] = <<"ec_invalid">>
        /\ TypeOf(d) = "expense_confirm"

\* The replies a handler sends after a yes or a no.
YesNoReplies ==
    {"ec_category_prompt", "ec_save_error", "ec_prompt_error", "ec_cancelled",
     "cc_error", "cc_not_found", "cc_classified", "cc_kept",
     "cl_none", "cl_error", "cl_empty", "cl_cleared", "cl_cancelled"}

\* C15: the pending state of chat c changes or disappears only in a step of
\* the handler of a yes or a no of chat c, or when the connection closes; no
\* step of another chat, no invalid reply and no passing of time changes it.
C15_PendingLeftOnlyByAnswerOrReset ==
    [][\A c \in Chats :
         (TypeOf(c) # "none" /\ userConfirmationState'[c] # userConfirmationState[c]) =>
            \/ lastStep' = "close"
            \/ Begins(c, "ec_category_prompt") /\ TypeOf(c) = "expense_confirm"
            \/ \E pc \in YesNoReplies : Ends(c, pc)
      ]_vars

\* A confirmation is still pending after time has passed, after an invalid
\* reply of its chat and while the other chat is being answered.
C15_Witness ==
    \E c \in Chats, d \in Chats :
        /\ TypeOf(c) = "expense_confirm"
        /\ handlers[c] = <<"ec_invalid">>
        /\ now = MaxTime
        /\ d # c
        /\ handlers[d] = <<"cl_cancelled">>

\* C16: the close of the connection, reconnecting or logged out, leaves
\* userConfirmationState and lastAddedExpenseData empty for every chat in one
\* step and does not touch the file: the line appended for a confirmation
\* still open is still there, with category 'Outros'.
C16_CloseEmptiesBothTables ==
    [][lastStep' = "close" =>
         /\ \A c \in Chats :
               /\ userConfirmationState'[c] = NoPending
               /\ lastAddedExpenseData'[c] = NoAdded
               /\ (lastAddedExpenseData[c].present /\ AppendedLineKept(c)) =>
                     \E i \in 1..Len(gastos'.lines) :
                        gastos'.lines[i] =
                           FormatLine(lastAddedExpenseData[c].timestamp,
                                      lastAddedExpenseData[c].value,
                                      lastAddedExpenseData[c].description, Outros)
         /\ gastos' = gastos
      ]_vars

\* The connection closed while the category question was being sent: both
\* tables are empty and the appended record is in the ledger as 'Outros'.
C16_Witness ==
    \E c \in Chats :
        /\ lastStep = "close"
        /\ handlers[c] = <<"ec_category_prompt">>
        /\ \A d \in Chats : userConfirmationState[d] = NoPending /\ lastAddedExpenseData[d] = NoAdded
        /\ Len(Ledger) = 1
        /\ Ledger[1].description = <<"Uber">>
        /\ Ledger[1].category = Outros

\* C17: every error raised while an inbound message is handled is caught
\* inside the handler and answered with one reply, so no handler ends with an
\* error that no catch took; in particular a failed ledger read, append,
\* rewrite or unlink never ends a handler that has sent nothing.
C17_NoErrorEscapesHandler ==
    [][lastStep' = "uncaught" => handlers' # handlers]_vars

\* The replies of the handlers that set a pending state.
OpeningReplies == {"expense_prompt", "ec_category_prompt", "limpar_prompt"}

\* C18: the events of one chat are handled one after the other, so a handler
\* that resumes late never deletes the userConfirmationState or the
\* lastAddedExpenseData that the handler of a later message has set.
C18_LateHandlerDeletesNothingNewer ==
    [][\A c \in Chats :
         (/\ Len(handlers[c]) = 2
          /\ handlers[c][2] \in OpeningReplies
          /\ handlers'[c] = <<handlers[c][2]>>) =>
            /\ userConfirmationState'[c] = userConfirmationState[c]
            /\ lastAddedExpenseData'[c] = lastAddedExpenseData[c]
      ]_vars

\* C19: the value of every pending expense_confirm, and with it the value of
\* every record a yes appends, is strictly positive: a statement with amount
\* zero sets no pending state.
C19_PendingValuePositive ==
    \A c \in Chats :
        /\ TypeOf(c) = "expense_confirm" => userConfirmationState[c].value > 0
        /\ lastAddedExpenseData[c].present => lastAddedExpenseData[c].value > 0

\* C20: for every content of the file, writeExpensesToFile applied to what
\* readExpensesFromFile returns writes the lines that were there, unchanged
\* and in the same order, lines of one, three or five fields included.
C20_RewriteOfReadKeepsLines ==
    gastos.exists => writeExpensesToFile(readExpensesFromFile(gastos)).lines = gastos.lines

\* A line of at least three fields whose second field is a number.
ValidLine(line) ==
    /\ Len(Split(line)) >= 3
    /\ parseFloat(Split(line)[2]) # NaN

C22_SecondClearFindsNothing ==
    [][\A c \in Chats :
         /\ (/\ TypeOf(c) = "clear_confirm"
             /\ ~gastos.exists
             /\ handlers[c] = <<>>
             /\ Len(handlers'[c]) = 1
             /\ handlers'[c][1] \notin {"cl_cancelled", "cl_invalid"}) =>
               /\ handlers'[c] = <<"cl_none">>
               /\ lastStep' = "ok"
               /\ gastos' = gastos
               /\ readExpensesFromFile(gastos') = <<>>
         /\ Ends(c, "cl_none") =>
               /\ userConfirmationState'[c].type = "none"
               /\ gastos' = gastos
      ]_vars

\* Two chats have answered yes: the first removed the file, the second found
\* nothing to remove.
C22_Witness ==
    \E c \in Chats, d \in Chats :
        /\ handlers[c] = <<"cl_cleared">>
        /\ handlers[d] = <<"cl_none">>
        /\ TypeOf(d) = "clear_confirm"
        /\ ~gastos.exists

\* The records of the ledger that have the timestamp, value and description
\* of expenseData and still the category 'Outros'.
MatchingRecords(expenses, expenseData) ==
    { i \in 1..Len(expenses) :
        /\ expenses[i].timestamp = expenseData.timestamp
        /\ expenses[i].value = expenseData.value
        /\ expenses[i].description = expenseData.description
        /\ expenses[i].category = Outros }

\* C23: a yes in category_confirm gives the suggested category to the newest
\* record that has the timestamp, value and description of
\* lastAddedExpenseData and still the category 'Outros'; the number and
\* order of the records, every timestamp, value and description and the
\* category of every other record stay as they were; when no record matches
\* the file is not written.
C23_NewestMatchGetsCategory ==
    [][\A c \in Chats :
         (/\ TypeOf(c) = "category_confirm"
          /\ lastAddedExpenseData[c].present
          /\ Begins(c, "cc_classified") \/ Begins(c, "cc_not_found")) =>
            LET old == readExpensesFromFile(gastos)
                new == readExpensesFromFile(gastos')
                matches == MatchingRecords(old, lastAddedExpenseData[c])
            IN  IF matches = {}
                THEN /\ handlers'[c] = <<"cc_not_found">>
                     /\ gastos' = gastos
                ELSE /\ handlers'[c] = <<"cc_classified">>
                     /\ Len(new) = Len(old)
                     /\ \A k \in 1..Len(old) :
                           new[k] =
                             IF k \in matches /\ \A j \in matches : j <= k
                             THEN [old[k] EXCEPT !.category =
                                     lastAddedExpenseData[c].suggestedCategory]
                             ELSE old[k]
      ]_vars

\* Of two records with the same timestamp, value and description the newer
\* one has been classified and the older one is still 'Outros'.
C23_Witness ==
    \E c \in Chats :
        /\ handlers[c] = <<"cc_classified">>
        /\ Len(Ledger) = 2
        /\ Ledger[1] = [Ledger[2] EXCEPT !.category = Outros]
        /\ Ledger[2].category = <<"Transporte">>

\* The place of a month label in time: twelve times its year plus its month.
MonthNumber(key) == parseInt(key[3]) * 12 + indexOf(monthOrder, key[1])

\* C24: /relatorio lists its month groups in the order of time (by year, then
\* by month) for every content of the ledger, in whatever order the records
\* are stored, the labels being those of pt-BR ('março de 2024').
C24_ReportMonthsChronological ==
    LET months == sortedMonths(Ledger) IN
    \A i \in 1..Len(months), j \in 1..Len(months) :
        i < j => MonthNumber(months[i]) < MonthNumber(months[j])

\* C25: an amount written with a dot ('gastei 1.5 no Uber') is accepted as
\* the same amount written with a comma is: wherever the comma statement
\* sets an expense_confirm state, the dot statement sets the same one, with
\* the same value and description.
C25_DotAmountAccepted ==
    \A c \in Chats :
        ENABLED ExpenseStatement(c, Msg("gastei", Amt(1, ",", <<5>>), "no", <<"Uber">>)) =>
            ENABLED ( /\ ExpenseStatement(c, Msg("gastei", Amt(1, ".", <<5>>), "no", <<"Uber">>))
                      /\ userConfirmationState'[c] =
                           Pending("expense_confirm", 150, <<"Uber">>, <<"Transporte">>) )

\* C26: a category 'sim' of chat c changes only a record that chat c itself
\* appended, never the record of another chat, also when two chats appended
\* records of equal value and description at the same timestamp.
C26_CategoryYesChangesOwnRecord ==
    [][ \A c \in Chats :
          Begins(c, "cc_classified") =>
              \A i \in 1..Len(Ledger) :
                  readExpensesFromFile(gastos')[i] # Ledger[i] =>
                      KeptWriters(gastos.lines, appendedBy.by)[i] = c ]_vars

\* C27: the read, the change and the rewrite of a category 'sim' are one
\* step among the handlers of all chats: whatever handlers of other chats are
\* suspended at their sends, the rewrite is made from the file as it is, so
\* the file afterwards holds every record it held before, in the same order,
\* each unchanged or with the confirmed category; no appended record is lost.
C27_CategoryRewriteLosesNoRecord ==
    [][ \A c \in Chats :
          Begins(c, "cc_classified") =>
              LET new == readExpensesFromFile(gastos') IN
              /\ Len(new) = Len(Ledger)
              /\ \A i \in 1..Len(Ledger) :
                    \/ new[i] = Ledger[i]
                    \/ new[i] = [Ledger[i] EXCEPT
                                   !.category = lastAddedExpenseData[c].suggestedCategory] ]_vars
\* A chat has had its record categorised while the handler of another chat
\* that appended a later record is still suspended at its send.
C27_Witness ==
    \E c \in Chats : \E d \in Chats \ {c} :
        /\ handlers[c] = <<"cc_classified">>
        /\ handlers[d] = <<"ec_category_prompt">>
        /\ Len(Ledger) = 2
        /\ Ledger[1].category # Outros
        /\ Ledger[2].category = Outros

\* The replies a 'sim' in category_confirm can open with.
CategoryYesReplies == {"cc_classified", "cc_not_found", "cc_error"}

\* C28: in every step the records read from the ledger stay as they are, or
\* get one more record at the end (a 'sim' to an expense), or become none (a
\* 'sim' to a clear), or keep their number and order with one category
\* changed (a 'sim' to a category); and a category 'sim' that finds the file
\* gone, cleared by another chat, answers 'not found' and leaves it gone.
C28_LedgerGrowsAtEndOrEmpties ==
    [][ LET new == readExpensesFromFile(gastos') IN
        /\ \/ gastos' = gastos
           \/ new = Ledger
           \/ /\ \E c \in Chats : Begins(c, "ec_category_prompt")
              /\ Len(new) = Len(Ledger) + 1
              /\ SubSeq(new, 1, Len(Ledger)) = Ledger
           \/ /\ \E c \in Chats : Begins(c, "cl_cleared")
              /\ new = <<>>
           \/ /\ \E c \in Chats : Begins(c, "cc_classified")
              /\ Len(new) = Len(Ledger)
              /\ \E i \in 1..Len(Ledger) :
                    \A k \in 1..Len(Ledger) :
                        new[k] = IF k = i THEN [Ledger[k] EXCEPT !.category = new[k].category]
                                 ELSE Ledger[k]
        /\ \A c \in Chats : \A pc \in CategoryYesReplies :
              Begins(c, pc) /\ ~gastos.exists =>
                  pc = "cc_not_found" /\ ~gastos'.exists ]_vars
\* A chat whose record another chat has cleared has answered 'sim' to the
\* category question and is being told the expense was not found.
C28_Witness ==
    \E c \in Chats :
        /\ handlers[c] = <<"cc_not_found">>
        /\ lastAddedExpenseData[c].present
        /\ ~gastos.exists
        /\ Ledger = <<>>

====
